---- MODULE Spec2Model ----
(***************************************************************************)
(* homebins: the manifest-to-filesystem operation engine of src/lib.rs.    *)
(*                                                                         *)
(* install_manifest / remove_manifest plan a sequence of operations and    *)
(* apply them one after the other against the destination tree and a       *)
(* per-manifest download directory; installed_manifest_version probes the  *)
(* installed binary; installed_files / files_to_remove list destinations.  *)
(* The modules lib.rs calls into (operations, manifest, dirs, checksum)    *)
(* are modelled from their description in spec.md.                         *)
(***************************************************************************)
EXTENDS Integers, Sequences, FiniteSets, TLC

\* ------------------------------------------------------------------ bounds
MaxVersion == 2     \* versions are 1..MaxVersion
MaxArtifact == 1    \* artifacts a server can hold are 0..MaxArtifact
MaxOut == 2         \* longest stdout of the probed binary, in bytes
MaxCalls == 2       \* install/remove calls one caller makes in a run

\* ------------------------------------------------------------- value sets
Procs == {"p1", "p2"}               \* callers of the public API
Kinds == {"bin", "man"}             \* destination directory kinds
Versions == 1..MaxVersion
Artifacts == 0..MaxArtifact

NONE == <<-1, -1>>                  \* content of a file that does not exist
OldContent == <<-1, 0>>             \* content of a file some other tool left
Absent == [content |-> NONE, exe |-> FALSE]

\* What the two servable layouts of installed files look like: a single
\* downloaded executable, or an archive with an executable and a man page.
SingleFile == <<[member |-> 0, kind |-> "bin", name |-> "tool", exe |-> TRUE]>>
ArchiveFiles ==
    << [member |-> 1, kind |-> "bin", name |-> "tool", exe |-> TRUE],
       [member |-> 2, kind |-> "man", name |-> "tool.1", exe |-> FALSE] >>
Layouts == {SingleFile, ArchiveFiles}
FileNames == {"tool", "tool.1"}
ScratchNames == FileNames \cup {"download"}

\* version_check patterns: a literal followed by capture group 1, one or
\* more characters of a class.  valid = FALSE is a pattern that does not
\* compile.
PatDigits == [valid |-> TRUE, lit |-> <<"v">>, cls |-> "digit"]    \* v(\d+)
PatAny == [valid |-> TRUE, lit |-> <<"v">>, cls |-> "any"]         \* v(.+)
PatBroken == [valid |-> FALSE, lit |-> <<"v">>, cls |-> "digit"]   \* v(\d+
Patterns == {PatDigits, PatAny, PatBroken}

\* The checksum of a file: a digest of its content (not injective).
Hash(a) == a % 2
Digests == {Hash(a) : a \in Artifacts}

\* The members an archive holds: artifact a holds members 1..a+1.
Members(a) == 1..(a + 1)

ManifestNames == [p1 |-> "alpha", p2 |-> "beta"]

ManifestsNamed(n) ==
    [ name : {n}, version : Versions, binary : {"tool"}, pattern : Patterns,
      checksum : Digests, files : Layouts ]

\* InstallDirs: every directory kind maps to exactly one directory.
DirConfigs == { [bin |-> "bin", man |-> "man"], [bin |-> "home", man |-> "home"] }

\* PathBuf::join of a directory and a relative file name.
Join(dir, name) == <<dir, name>>

\* InstallDirs::path
DirsPath(dirs, kind) == dirs[kind]

Paths == { Join(DirsPath(d, k), n) : d \in DirConfigs, k \in Kinds, n \in FileNames }

\* ------------------------------------------------------------- the planner
\* operations::install_manifest: the download first, then for every declared
\* file its extraction (archives only) and its placement, in declaration order.
RECURSIVE FileOps(_, _)
FileOps(files, i) ==
    IF i > Len(files) THEN <<>>
    ELSE LET f == files[i]
             place == [ op |-> IF f.exe THEN "PlaceExecutable" ELSE "PlaceFile",
                        source |-> IF f.member = 0 THEN "download" ELSE f.name,
                        kind |-> f.kind, name |-> f.name ]
         IN  (IF f.member = 0 THEN <<place>>
              ELSE << [op |-> "Extract", member |-> f.member, target |-> f.name], place >>)
             \o FileOps(files, i + 1)

operations_install_manifest(m) ==
    << [op |-> "Download", checksum |-> m.checksum, target |-> "download"] >>
        \o FileOps(m.files, 1)

\* operations::remove_manifest: one Delete per declared destination, computed
\* from the manifest alone.
operations_remove_manifest(m) ==
    [ i \in 1..Len(m.files) |->
        [op |-> "Delete", kind |-> m.files[i].kind, name |-> m.files[i].name] ]

\* operations::operation_destinations: the destinations of the operations
\* that place a file.
operation_destinations(ops) ==
    LET placing == SelectSeq(ops, LAMBDA o : o.op \in {"PlaceExecutable", "PlaceFile"})
    IN  [ i \in 1..Len(placing) |-> [kind |-> placing[i].kind, name |-> placing[i].name] ]

\* ManifestOperationDirs::for_manifest: the install directories plus a download
\* directory derived from the manifest's name.
for_manifest(dirs, m) == [install |-> dirs, download_dir |-> m.name]

Range(s) == { s[i] : i \in 1..Len(s) }


\* ------------------------------------------------------------ the executor
IsPlace(op) == op.op \in {"PlaceExecutable", "PlaceFile"}

\* ApplyOperation::apply_operation for one operation, against the download
\* directory of `od` in `scr` and the destination tree `dst`.  `served` is the
\* artifact the server holds; netOk and ioOk say whether the network and the
\* filesystem let this operation through.  fault tells an error the
\* environment injected from one the state decides.
apply_operation(op, od, scr, dst, served, netOk, ioOk) ==
    LET dir == od.download_dir
        mine == scr[dir]
        res(out, flt, s, d) == [outcome |-> out, fault |-> flt, scratch |-> s, dest |-> d]
    IN  CASE op.op = "Download" ->
               IF ~netOk THEN res("NetworkError", TRUE, scr, dst)
               ELSE IF Hash(served) # op.checksum
                    THEN res("ChecksumMismatch", FALSE,
                             [scr EXCEPT ![dir][op.target] = NONE], dst)
                    ELSE res("Ok", FALSE,
                             [scr EXCEPT ![dir][op.target] = <<served, 0>>], dst)
          [] op.op = "Extract" ->
               LET archive == mine["download"]
               IN  IF archive = NONE \/ op.member \notin Members(archive[1])
                   THEN res("MissingMember", FALSE, scr, dst)
                   ELSE res("Ok", FALSE,
                            [scr EXCEPT ![dir][op.target] = <<archive[1], op.member>>], dst)
          [] IsPlace(op) ->
               LET src == mine[op.source]
                   path == Join(DirsPath(od.install, op.kind), op.name)
               IN  IF src = NONE THEN res("IoError", FALSE, scr, dst)
                   ELSE IF ~ioOk THEN res("IoError", TRUE, scr, dst)
                   ELSE res("Ok", FALSE, scr,
                            [dst EXCEPT ![path] =
                                [content |-> src, exe |-> (op.op = "PlaceExecutable")]])
          [] op.op = "Delete" ->
               LET path == Join(DirsPath(od.install, op.kind), op.name)
               IN  IF dst[path] = Absent THEN res("Ok", FALSE, scr, dst)
                   ELSE IF ~ioOk THEN res("IoError", TRUE, scr, dst)
                   ELSE res("Ok", FALSE, scr, [dst EXCEPT ![path] = Absent])

\* ------------------------------------------------------------------- state
VARIABLES
    active,     \* the callers that take part in this run
    dirs,       \* InstallDirs, shared by every caller
    manifest,   \* manifest[p]: the manifest caller p works on
    remote,     \* remote[n]: the artifact served for the manifest named n
    dest,       \* the destination tree: path -> file
    scratch,    \* scratch[n][f]: file f of the download directory of manifest n
    pc,         \* pc[p]: "idle", "install" or "remove"
    ops,        \* ops[p]: the planned operations of p's running call
    idx,        \* idx[p]: the next operation of ops[p] to apply
    result,     \* result[p]: what p's last finished call returned
    trace,      \* trace[p]: the operations p's current or last call applied
    start,      \* start[p]: dest and scratch when p's current or last call began
    hist,       \* hist[p]: p's last two finished calls, oldest first
    calls,      \* calls[p]: the install/remove calls p has begun
    probe,      \* the last query and what it returned
    answered    \* answered[p]: what installed_files first returned to p, and
                \* the destination tree it was asked on

vars == << active, dirs, manifest, remote, dest, scratch, pc, ops, idx, result,
           trace, start, hist, calls, probe, answered >>

OldFile == [content |-> OldContent, exe |-> FALSE]
OldExecutable == [content |-> OldContent, exe |-> TRUE]
NoProbe == [call |-> "none"]
NoAnswer == [asked |-> FALSE, files |-> <<>>, dest |-> [x \in Paths |-> Absent]]
NoCall == [call |-> "none", result |-> "none", fault |-> FALSE,
           dest |-> [x \in Paths |-> Absent]]
DefaultManifest(n) ==
    [ name |-> n, version |-> 1, binary |-> "tool", pattern |-> PatDigits,
      checksum |-> 0, files |-> SingleFile ]


\* ------------------------------------------------------- the version prober
BadByte == "\\xff"                  \* a byte that is not valid UTF-8
Digits == {"1", "2"}
Bytes == {"v"} \cup Digits \cup {BadByte}
Outputs == UNION { [1..n -> Bytes] : n \in 0..MaxOut }

\* What happens when the binary is executed: whether the process can be run
\* at all, what it writes to stdout and its exit code.
NoRun == [spawn |-> FALSE, stdout |-> <<>>, exit |-> 0]
Runs == {NoRun} \cup [spawn : {TRUE}, stdout : Outputs, exit : {0, 1}]

\* Mutant: bytes that are not UTF-8 are let through (a lossy conversion).
from_utf8_lossy(bytes) == TRUE

\* std::str::from_utf8
from_utf8_ok(bytes) == \A i \in 1..Len(bytes) : bytes[i] # BadByte

InClass(c, cls) == IF cls = "digit" THEN c \in Digits ELSE TRUE

\* Mutant: the text of the whole match (group 0) is taken.
captures_whole_match(pat, text) ==
    LET n == Len(pat.lit)
        matchesAt(i) ==
            /\ i + n <= Len(text)
            /\ \A k \in 1..n : text[i + k - 1] = pat.lit[k]
            /\ InClass(text[i + n], pat.cls)
        begins == { i \in 1..Len(text) : matchesAt(i) }
    IN  IF begins = {} THEN <<>>
        ELSE LET i == CHOOSE b \in begins : \A c \in begins : b <= c
                 ends == { j \in (i + n)..Len(text) :
                             \A k \in (i + n)..j : InClass(text[k], pat.cls) }
                 j == CHOOSE e \in ends : \A c \in ends : c <= e
             IN  SubSeq(text, i, j)

\* Regex::captures(..).and_then(|c| c.get(1)): the text of capture group 1 of
\* the leftmost match, the group taking as many characters as it can;
\* <<>> when the pattern does not match (the group never matches empty).
captures(pat, text) ==
    LET n == Len(pat.lit)
        matchesAt(i) ==
            /\ i + n <= Len(text)
            /\ \A k \in 1..n : text[i + k - 1] = pat.lit[k]
            /\ InClass(text[i + n], pat.cls)
        begins == { i \in 1..Len(text) : matchesAt(i) }
    IN  IF begins = {} THEN <<>>
        ELSE LET i == CHOOSE b \in begins : \A c \in begins : b <= c
                 ends == { j \in (i + n)..Len(text) :
                             \A k \in (i + n)..j : InClass(text[k], pat.cls) }
                 j == CHOOSE e \in ends : \A c \in ends : c <= e
             IN  SubSeq(text, i + n, j)

\* Versioning::new: the version a text denotes, 0 when it denotes none.
\* Versions are decimal numbers here, ordered as numbers.
RECURSIVE Decimal(_)
Decimal(t) ==
    IF t = <<>> THEN 0
    ELSE 10 * Decimal(SubSeq(t, 1, Len(t) - 1))
         + (IF t[Len(t)] = "1" THEN 1 ELSE 2)

Versioning_new(t) ==
    IF t # <<>> /\ \A i \in 1..Len(t) : t[i] \in Digits THEN Decimal(t) ELSE 0

\* Results of the queries: Ok(Some(version)), Ok(None) or Err(error);
\* executed tells whether the binary was run.
OkSome(v, ex) == [ok |-> TRUE, some |-> TRUE, version |-> v, error |-> "", executed |-> ex]
OkNone(ex) == [ok |-> TRUE, some |-> FALSE, version |-> 0, error |-> "", executed |-> ex]
Err(e, ex) == [ok |-> FALSE, some |-> FALSE, version |-> 0, error |-> e, executed |-> ex]

\* Mutant: the binary is run without looking for its file.
binary_is_file_always(d, m, dst) == TRUE

\* binary.is_file(), for binary = dirs.bin_dir().join(&manifest.discover.binary)
binary_is_file(d, m, dst) == dst[Join(DirsPath(d, "bin"), m.binary)] # Absent

\* Mutant: a pattern that does not compile is taken as one that matches
\* nothing.
regex_compiles_lenient(pat) == TRUE

\* manifest.discover.version_check.regex() is Ok
regex_compiles(pat) == pat.valid

\* Mutant: a process that exits with a non-zero code counts as one that
\* could not be run.
command_output_ok_on_success(run, file) == run.spawn /\ file.exe /\ run.exit = 0

\* Command::new(&binary).args(args).output() is Ok: the process could be run
\* (a file that is not executable cannot) and its output was collected; the
\* exit code is not looked at.
command_output_ok(run, file) == run.spawn /\ file.exe

\* Mutant: a capture that is no version counts as no version found.
parse_version_lenient(version) ==
    IF version = <<>> \/ Versioning_new(version) = 0 THEN OkNone(TRUE)
    ELSE OkSome(Versioning_new(version), TRUE)

\* version.map(|s| Versioning::new(s).ok_or_else(..)).transpose()?: None when
\* nothing was captured, an error when the capture is no version.
parse_version(version) ==
    IF version = <<>> THEN OkNone(TRUE)
    ELSE IF Versioning_new(version) = 0 THEN Err("VersionParseError", TRUE)
    ELSE OkSome(Versioning_new(version), TRUE)

\* installed_manifest_version, on the destination tree dst; run is what
\* executing the binary would do.
installed_manifest_version(d, m, dst, run) ==
    LET binary == Join(DirsPath(d, "bin"), m.binary)
    IN  IF binary_is_file(d, m, dst)
        THEN IF ~command_output_ok(run, dst[binary]) THEN Err("ProcessError", TRUE)
             ELSE IF ~regex_compiles(m.pattern) THEN Err("InvalidPattern", TRUE)
             ELSE IF ~from_utf8_ok(run.stdout) THEN Err("NonUtf8Output", TRUE)
             ELSE parse_version(captures(m.pattern, run.stdout))
        ELSE OkNone(FALSE)

\* Mutant: an installed version equal to the declared one counts as outdated.
outdated_manifest_version_or_equal(d, m, dst, run) ==
    LET installed == installed_manifest_version(d, m, dst, run)
    IN  IF installed.ok /\ installed.some /\ ~(installed.version <= m.version)
        THEN OkNone(installed.executed)
        ELSE installed

\* outdated_manifest_version
outdated_manifest_version(d, m, dst, run) ==
    LET installed == installed_manifest_version(d, m, dst, run)
    IN  IF installed.ok /\ installed.some /\ ~(installed.version < m.version)
        THEN OkNone(installed.executed)
        ELSE installed

\* Mutant: only the files that exist in the destination tree are listed.
installed_files_existing(d, m) ==
    LET dsts == operation_destinations(operations_install_manifest(m))
        all == [ i \in 1..Len(dsts) |-> Join(DirsPath(d, dsts[i].kind), dsts[i].name) ]
    IN  SelectSeq(all, LAMBDA x : dest[x] # Absent)

\* installed_files
installed_files(d, m) ==
    LET dsts == operation_destinations(operations_install_manifest(m))
    IN  [ i \in 1..Len(dsts) |-> Join(DirsPath(d, dsts[i].kind), dsts[i].name) ]

\* Mutant: every file is looked for in the bin directory.
files_to_remove_bin_only(d, m) ==
    LET rm == operations_remove_manifest(m)
    IN  [ i \in 1..Len(rm) |-> Join(DirsPath(d, "bin"), rm[i].name) ]

\* files_to_remove
files_to_remove(d, m) ==
    LET rm == operations_remove_manifest(m)
    IN  [ i \in 1..Len(rm) |-> Join(DirsPath(d, rm[i].kind), rm[i].name) ]


\* -------------------------------------------------------------------- Init
\* The destinations the active callers' manifests own.
Owned(act, d, ms) == UNION { Range(installed_files(d, ms[p])) : p \in act }

InitCommon(act) ==
    /\ active = act
    /\ dirs \in DirConfigs
    /\ manifest \in [Procs -> UNION { ManifestsNamed(ManifestNames[p]) : p \in Procs }]
    /\ \A p \in Procs :
          IF p \in act THEN manifest[p].name = ManifestNames[p]
          ELSE manifest[p] = DefaultManifest(ManifestNames[p])
    /\ remote \in [{ ManifestNames[p] : p \in Procs } -> Artifacts]
    /\ \A p \in Procs \ act : remote[ManifestNames[p]] = 0
    \* files another tool left at the destinations may be there already
    /\ dest \in [Paths -> {Absent, OldFile, OldExecutable}]
    /\ \A x \in Paths \ Owned(act, dirs, manifest) : dest[x] = Absent
    \* a download an earlier install fetched may be there already
    /\ \E kept \in SUBSET { ManifestNames[p] : p \in act } :
          scratch = [ n \in { ManifestNames[p] : p \in Procs } |->
                        [ f \in ScratchNames |->
                            IF n \in kept /\ f = "download" THEN <<remote[n], 0>>
                            ELSE NONE ] ]
    /\ pc = [p \in Procs |-> "idle"]
    /\ ops = [p \in Procs |-> <<>>]
    /\ idx = [p \in Procs |-> 1]
    /\ result = [p \in Procs |-> "none"]
    /\ trace = [p \in Procs |-> <<>>]
    /\ start = [p \in Procs |-> [dest |-> dest, scratch |-> scratch]]
    /\ hist = [p \in Procs |-> <<NoCall, NoCall>>]
    /\ probe = NoProbe
    /\ answered = [p \in Procs |-> NoAnswer]

\* The engine does not read the version check of a manifest; it starts with
\* empty download directories.
Init ==
    /\ InitCommon({"p1"})
    /\ calls = [p \in Procs |-> 0]
    /\ \A n \in DOMAIN scratch : \A f \in ScratchNames : scratch[n][f] = NONE
    /\ manifest["p1"].pattern = PatDigits
    /\ manifest["p1"].version = 1

\* The queries read neither the server nor the checksum.
InitQuery ==
    /\ InitCommon({"p1"})
    /\ calls = [p \in Procs |-> 0]
    /\ manifest["p1"].checksum = 0
    /\ remote[ManifestNames["p1"]] = 0

\* ----------------------------------------------------------------- actions
\* Mutant: the error of an operation is dropped and the loop goes on.
PropagateNever(outcome) == FALSE

\* `?` applied to the result of apply_operation: TRUE when the error leaves
\* the loop and the function.
Propagate(outcome) == outcome # "Ok"

\* Mutant: on an error the files of the manifest are cleaned away.
UnwindCleanup(p, dst) ==
    [ x \in Paths |->
        IF x \in Range(installed_files(dirs, manifest[p])) THEN Absent ELSE dst[x] ]

\* The destination tree an error leaves behind: `?` returns at once, and what
\* the operations before it did stays as it is.
Unwind(p, dst) == dst

\* A call of p returns r: it is recorded as p's last finished call.  flt tells
\* an error the environment injected.
Return(p, call, r, flt, dst) ==
    /\ pc' = [pc EXCEPT ![p] = "idle"]
    /\ result' = [result EXCEPT ![p] = r]
    /\ hist' = [hist EXCEPT ![p] =
                  << hist[p][2],
                     [call |-> call, result |-> r, fault |-> flt, dest |-> dst] >>]

\* Mutant: every call works in the download directory of one manifest.
op_dirs_shared(p) == [install |-> dirs, download_dir |-> ManifestNames["p1"]]

\* let op_dirs = ManifestOperationDirs::for_manifest(dirs, install_dirs, manifest)
op_dirs(p) == for_manifest(dirs, manifest[p])

\* Mutant: the loop starts at the second operation of the plan.
BeginSkipFirst(p, call, plan) ==
    /\ pc[p] = "idle"
    /\ calls[p] < MaxCalls
    /\ calls' = [calls EXCEPT ![p] = calls[p] + 1]
    /\ pc' = [pc EXCEPT ![p] = call]
    /\ ops' = [ops EXCEPT ![p] = plan]
    /\ idx' = [idx EXCEPT ![p] = 2]
    /\ trace' = [trace EXCEPT ![p] = <<>>]
    /\ start' = [start EXCEPT ![p] = [dest |-> dest, scratch |-> scratch]]
    /\ probe' = NoProbe
    /\ UNCHANGED << active, dirs, manifest, remote, dest, scratch, result, hist,
                    answered >>

\* The start of a call: the plan is computed and the loop is entered.
Begin(p, call, plan) ==
    /\ pc[p] = "idle"
    /\ calls[p] < MaxCalls
    /\ calls' = [calls EXCEPT ![p] = calls[p] + 1]
    /\ pc' = [pc EXCEPT ![p] = call]
    /\ ops' = [ops EXCEPT ![p] = plan]
    /\ idx' = [idx EXCEPT ![p] = 1]
    /\ trace' = [trace EXCEPT ![p] = <<>>]
    /\ start' = [start EXCEPT ![p] = [dest |-> dest, scratch |-> scratch]]
    /\ probe' = NoProbe
    /\ UNCHANGED << active, dirs, manifest, remote, dest, scratch, result, hist,
                    answered >>

\* Mutant: an operation the environment failed is attempted once more.
StepRetry(p, call) ==
    /\ pc[p] = call
    /\ probe' = NoProbe
    /\ UNCHANGED << active, dirs, manifest, remote, ops, start, calls, answered >>
    /\ IF idx[p] > Len(ops[p])
       THEN /\ Return(p, call, "Ok", FALSE, dest)
            /\ UNCHANGED << dest, scratch, idx, trace >>
       ELSE \E netOk, ioOk \in BOOLEAN :
              LET op == ops[p][idx[p]]
                  r == apply_operation(op, op_dirs(p), scratch, dest,
                                       remote[manifest[p].name], netOk, ioOk)
                  again == /\ r.fault
                           /\ \A j \in 1..Len(trace[p]) : trace[p][j].i # idx[p]
              IN  /\ dest' = r.dest
                  /\ scratch' = r.scratch
                  /\ trace' = [trace EXCEPT ![p] =
                                 Append(@, [i |-> idx[p], outcome |-> r.outcome,
                                            fault |-> r.fault])]
                  /\ IF Propagate(r.outcome) /\ ~again
                     THEN /\ Return(p, call, r.outcome, r.fault, r.dest)
                          /\ UNCHANGED idx
                     ELSE /\ idx' = [idx EXCEPT ![p] =
                                       IF Propagate(r.outcome) THEN idx[p] ELSE idx[p] + 1]
                          /\ UNCHANGED << pc, result, hist >>

\* One turn of `for operation in operations { operation.apply_operation(..)?; }`
\* or, when no operation is left, the return of Ok.
Step(p, call) ==
    /\ pc[p] = call
    /\ probe' = NoProbe
    /\ UNCHANGED << active, dirs, manifest, remote, ops, start, calls, answered >>
    /\ IF idx[p] > Len(ops[p])
       THEN /\ Return(p, call, "Ok", FALSE, dest)
            /\ UNCHANGED << dest, scratch, idx, trace >>
       ELSE \E netOk, ioOk \in BOOLEAN :
              LET op == ops[p][idx[p]]
                  r == apply_operation(op, op_dirs(p), scratch, dest,
                                       remote[manifest[p].name], netOk, ioOk)
              IN  /\ dest' = IF Propagate(r.outcome) THEN Unwind(p, r.dest) ELSE r.dest
                  /\ scratch' = r.scratch
                  /\ trace' = [trace EXCEPT ![p] =
                                 Append(@, [i |-> idx[p], outcome |-> r.outcome,
                                            fault |-> r.fault])]
                  /\ IF Propagate(r.outcome)
                     THEN /\ Return(p, call, r.outcome, r.fault, Unwind(p, r.dest))
                          /\ UNCHANGED idx
                     ELSE /\ idx' = [idx EXCEPT ![p] = idx[p] + 1]
                          /\ UNCHANGED << pc, result, hist >>

\* install_manifest: the operation directories, the plan, create_dir_all of
\* the download directory (which may fail), then the loop.
install_manifest_begin(p) ==
    \/ Begin(p, "install", operations_install_manifest(manifest[p]))
    \/ /\ pc[p] = "idle"
       /\ calls[p] < MaxCalls
       /\ calls' = [calls EXCEPT ![p] = calls[p] + 1]
       /\ Return(p, "install", "CreateDirError", TRUE, dest)
       /\ trace' = [trace EXCEPT ![p] = <<>>]
       /\ start' = [start EXCEPT ![p] = [dest |-> dest, scratch |-> scratch]]
       /\ ops' = [ops EXCEPT ![p] = operations_install_manifest(manifest[p])]
       /\ idx' = [idx EXCEPT ![p] = 1]
       /\ probe' = NoProbe
       /\ UNCHANGED << active, dirs, manifest, remote, dest, scratch, answered >>

install_manifest_step(p) == Step(p, "install")

\* Mutant: the remove plan undoes what the last install got done, and is
\* empty after an install that failed.
remove_manifest_begin_from_install(p) ==
    Begin(p, "remove",
          IF hist[p][2].call = "install" /\ hist[p][2].result # "Ok"
          THEN <<>> ELSE operations_remove_manifest(manifest[p]))

\* remove_manifest: the operation directories, the plan, then the loop.
remove_manifest_begin(p) == Begin(p, "remove", operations_remove_manifest(manifest[p]))

remove_manifest_step(p) == Step(p, "remove")

\* Mutant: a query clears the download directory of its manifest.
QueryClearing(p, call, run, res) ==
    /\ pc[p] = "idle"
    /\ probe = NoProbe
    /\ probe' = [call |-> call, by |-> p, result |-> res,
                 run |-> IF res.executed THEN run ELSE NoRun]
    /\ answered' = answered
    /\ scratch' = [scratch EXCEPT ![manifest[p].name] = [f \in ScratchNames |-> NONE]]
    /\ UNCHANGED << active, dirs, manifest, remote, dest, pc, ops, idx,
                    result, trace, start, hist, calls >>

\* The queries, made by a caller between its calls.
Query(p, call, run, res) ==
    /\ pc[p] = "idle"
    /\ probe = NoProbe
    /\ probe' = [call |-> call, by |-> p, result |-> res,
                 run |-> IF res.executed THEN run ELSE NoRun]
    /\ answered' = IF call = "files" /\ ~answered[p].asked
                   THEN [answered EXCEPT ![p] =
                           [asked |-> TRUE, files |-> res.installed_files, dest |-> dest]]
                   ELSE answered
    /\ UNCHANGED << active, dirs, manifest, remote, dest, scratch, pc, ops, idx,
                    result, trace, start, hist, calls >>

query_installed_manifest_version(p) ==
    \E run \in Runs :
        Query(p, "installed_manifest_version", run,
              installed_manifest_version(dirs, manifest[p], dest, run))

query_outdated_manifest_version(p) ==
    \E run \in Runs :
        Query(p, "outdated_manifest_version", run,
              outdated_manifest_version(dirs, manifest[p], dest, run))

query_files(p) ==
    Query(p, "files", NoRun,
          [ installed_files |-> installed_files(dirs, manifest[p]),
            files_to_remove |-> files_to_remove(dirs, manifest[p]),
            executed |-> FALSE ])

\* The engine: install_manifest and remove_manifest.
Next ==
    \/ \E p \in active : install_manifest_begin(p)
    \/ \E p \in active : install_manifest_step(p)
    \/ \E p \in active : remove_manifest_begin(p)
    \/ \E p \in active : remove_manifest_step(p)

Spec == Init /\ [][Next]_vars

\* The queries, each applied to every manifest, directory configuration and
\* destination tree of InitQuery.
NextQuery ==
    \/ \E p \in active : query_installed_manifest_version(p)
    \/ \E p \in active : query_outdated_manifest_version(p)
    \/ \E p \in active : query_files(p)

SpecQuery == InitQuery /\ [][NextQuery]_vars

\* installed_files and files_to_remove asked between the calls of the engine.
NextMixed ==
    \/ Next
    \/ \E p \in active : query_files(p)

SpecMixed == Init /\ [][NextMixed]_vars

\* Two callers install two manifests of different names at the same time,
\* into the same install directories; their operations interleave freely.
InitConc ==
    /\ dirs = [bin |-> "bin", man |-> "man"]
    \* the two servers hold different artifacts; the first manifest carries
    \* the checksum of its artifact, the second one any checksum
    /\ remote = [alpha |-> 0, beta |-> 1]
    /\ \E m1 \in ManifestsNamed(ManifestNames["p1"]),
          m2 \in ManifestsNamed(ManifestNames["p2"]) :
          /\ m1.checksum = Hash(remote["alpha"])
          /\ \A m \in {m1, m2} : m.pattern = PatDigits /\ m.version = 1
          /\ manifest = [p1 |-> m1, p2 |-> m2]
    /\ dest = [x \in Paths |-> Absent]
    /\ scratch = [ n \in DOMAIN remote |-> [f \in ScratchNames |-> NONE] ]
    \* each caller makes one call
    /\ calls = [p \in Procs |-> MaxCalls - 1]
    /\ InitCommon(Procs)

NextConc ==
    \/ \E p \in active : install_manifest_begin(p)
    \/ \E p \in active : install_manifest_step(p)

SpecConc == InitConc /\ [][NextConc]_vars


\* ------------------------------------------------------------------ claims
Last(p) == hist[p][2]           \* p's last finished call
Prev(p) == hist[p][1]           \* the call p finished before that
Finished(p, call) == pc[p] = "idle" /\ Last(p).call = call

\* The state after operations 1..n of p's plan have all succeeded, from the
\* state p's call began in.
RECURSIVE Replay(_, _)
Replay(p, n) ==
    IF n = 0 THEN start[p]
    ELSE LET before == Replay(p, n - 1)
             r == apply_operation(ops[p][n], op_dirs(p),
                                  before.scratch, before.dest,
                                  remote[manifest[p].name], TRUE, TRUE)
         IN  [dest |-> r.dest, scratch |-> r.scratch]

Destinations(p) == Range(installed_files(dirs, manifest[p]))
NoFileAt(tree, paths) == \A x \in paths : tree[x] = Absent

\* C1: install_manifest applies its plan one operation at a time in plan
\* order; the first failing operation k ends the call with that operation's
\* error, nothing after k is applied, and what operations 1..k-1 did to the
\* download directory and the destination tree is still there.
C1_FailFastNoRollback ==
    \A p \in active :
        LET n == Len(trace[p])
        IN  /\ pc[p] = "install" =>
                 /\ n = idx[p] - 1
                 /\ \A j \in 1..n : trace[p][j].i = j /\ trace[p][j].outcome = "Ok"
                 /\ dest = Replay(p, n).dest
                 /\ scratch = Replay(p, n).scratch
            /\ Finished(p, "install") /\ n > 0 =>
                 /\ \A j \in 1..n : trace[p][j].i = j
                 /\ \A j \in 1..(n - 1) : trace[p][j].outcome = "Ok"
                 /\ result[p] = trace[p][n].outcome
                 /\ result[p] = "Ok" => n = Len(ops[p]) /\ dest = Replay(p, n).dest
                 /\ result[p] # "Ok" =>
                      /\ dest = Replay(p, n - 1).dest
                      /\ n > 1 => scratch = Replay(p, n - 1).scratch

\* An install failed at its fifth operation, after a file had been placed.
C1_Witness ==
    /\ Finished("p1", "install")
    /\ result["p1"] # "Ok"
    /\ Len(trace["p1"]) = 5
    /\ dest # start["p1"].dest

\* C2: when the served artifact does not hash to the manifest's checksum,
\* install_manifest returns an error before any operation after the download
\* runs (so before every Place), and the destination tree is as it was when
\* the call began.
C2_ChecksumEnforced ==
    \A p \in active :
        Hash(remote[manifest[p].name]) # manifest[p].checksum =>
            /\ pc[p] = "install" => trace[p] = <<>> /\ dest = start[p].dest
            /\ Finished(p, "install") =>
                 /\ result[p] \in {"ChecksumMismatch", "NetworkError", "CreateDirError"}
                 /\ Len(trace[p]) <= 1
                 /\ \A j \in 1..Len(trace[p]) :
                        /\ ops[p][trace[p][j].i].op = "Download"
                        /\ ~trace[p][j].fault => result[p] = "ChecksumMismatch"
                 /\ dest = start[p].dest

\* The download of an install was fetched, its checksum did not match, and a
\* file another tool left at a destination is still there.
C2_Witness ==
    /\ Finished("p1", "install")
    /\ result["p1"] = "ChecksumMismatch"
    /\ \E x \in Destinations("p1") : dest[x] # Absent

\* C3: two installs of a manifest in a row end with the destination tree the
\* first one ended with, whatever the tree was before the first (the
\* environment injecting no error into the first).
C3_InstallIdempotent ==
    \A p \in active :
        /\ Prev(p).call = "install" /\ Last(p).call = "install" /\ ~Prev(p).fault =>
              Last(p).dest = Prev(p).dest
        /\ pc[p] = "install" /\ Last(p).call = "install" /\ ~Last(p).fault =>
              dest = Last(p).dest

\* Two installs in a row succeeded, over a file that was there before.
C3_Witness ==
    /\ Finished("p1", "install")
    /\ Prev("p1").call = "install" /\ Prev("p1").result = "Ok"
    /\ Last("p1").result = "Ok"
    /\ \E x \in Destinations("p1") : dest[x] # Absent

C5_RemoveAfterPartialInstall ==
    \A p \in active :
        /\ pc[p] = "remove" => ops[p] = operations_remove_manifest(manifest[p])
        /\ Finished(p, "remove") /\ Prev(p).call = "install" /\ Prev(p).result # "Ok" =>
              /\ Last(p).result = "Ok" \/ Last(p).fault
              /\ Last(p).result = "Ok" => NoFileAt(dest, Destinations(p))

\* An install placed its first file and failed before the second; the remove
\* after it succeeded.
C5_Witness ==
    /\ Finished("p1", "remove")
    /\ Prev("p1").call = "install" /\ Prev("p1").result # "Ok"
    /\ \E x, y \in Destinations("p1") :
          /\ Prev("p1").dest[x].content \notin {NONE, OldContent}
          /\ Prev("p1").dest[y].content \in {NONE, OldContent}
    /\ Last("p1").result = "Ok"


\* The query that was made, by whom and on which manifest.
Asked(call) == probe.call = call
Asker == manifest[probe.by]
BinaryPath == Join(DirsPath(dirs, "bin"), Asker.binary)

\* C6: for every manifest and directory configuration, files_to_remove
\* returns the same set of paths as installed_files.
C6_InverseCoverage ==
    Asked("files") =>
        Range(probe.result.files_to_remove) = Range(probe.result.installed_files)

\* Both lists were computed for an archive that installs into two directories.
C6_Witness ==
    /\ Asked("files")
    /\ Cardinality(Range(probe.result.installed_files)) = 2
    /\ dirs["bin"] # dirs["man"]

\* C7: outdated_manifest_version returns Some(installed) exactly when the
\* probe yields a version strictly less than the manifest's version, and None
\* when the probe yields None or a version equal to or greater than it.
C7_OutdatedStrictlyLess ==
    Asked("outdated_manifest_version") =>
        LET installed == installed_manifest_version(dirs, Asker, dest, probe.run)
            res == probe.result
        IN  /\ installed.ok /\ installed.some /\ installed.version < Asker.version =>
                 res.ok /\ res.some /\ res.version = installed.version
            /\ installed.ok /\ installed.some /\ installed.version >= Asker.version =>
                 res.ok /\ ~res.some
            /\ installed.ok /\ ~installed.some => res.ok /\ ~res.some
            /\ res.ok /\ res.some =>
                 installed.ok /\ installed.some /\ installed.version < Asker.version

\* The installed version equals the declared one, and the answer is None.
C7_Witness ==
    /\ Asked("outdated_manifest_version")
    /\ probe.result.ok /\ ~probe.result.some
    /\ from_utf8_ok(probe.run.stdout)
    /\ Versioning_new(captures(Asker.pattern, probe.run.stdout)) = Asker.version

\* C8, as claimed: for a manifest whose pattern does not compile,
\* installed_manifest_version returns an error whatever the state of the bin
\* directory.
C8_AlwaysError ==
    Asked("installed_manifest_version") /\ ~Asker.pattern.valid => ~probe.result.ok

\* C8, amended: for a manifest whose pattern does not compile,
\* installed_manifest_version returns an error whenever the binary's file
\* exists; once the process has been run that error is the invalid pattern,
\* whatever stdout holds; with no file of the binary it returns Ok(None).
C8_ErrorWhenBinaryExists ==
    Asked("installed_manifest_version") /\ ~Asker.pattern.valid =>
        /\ dest[BinaryPath] # Absent => ~probe.result.ok /\ probe.result.executed
        /\ dest[BinaryPath] # Absent /\ dest[BinaryPath].exe /\ probe.run.spawn =>
              probe.result.error = "InvalidPattern"
        /\ dest[BinaryPath] = Absent => probe.result.ok /\ ~probe.result.some

\* The pattern does not compile, the binary ran and wrote bytes that are not
\* UTF-8: the error is the pattern's.
C8_Witness ==
    /\ Asked("installed_manifest_version") /\ ~Asker.pattern.valid
    /\ probe.run.spawn /\ ~from_utf8_ok(probe.run.stdout)
    /\ probe.result.error = "InvalidPattern"

\* C9: when no file exists at bin_dir/discover.binary,
\* installed_manifest_version returns Ok(None) and the binary is not executed.
C9_AbsentBinaryIsNone ==
    Asked("installed_manifest_version") /\ dest[BinaryPath] = Absent =>
        /\ probe.result.ok /\ ~probe.result.some
        /\ ~probe.result.executed

\* The probe was asked with no binary and a man page another tool left.
C9_Witness ==
    /\ Asked("installed_manifest_version")
    /\ dest[BinaryPath] = Absent
    /\ \E x \in Paths : dest[x] # Absent
    /\ probe.result.ok /\ ~probe.result.some

\* The pattern matches text at position i: its literal, then at least one
\* character of the group's class.
MatchesAt(pat, text, i) ==
    /\ i + Len(pat.lit) <= Len(text)
    /\ SubSeq(text, i, i + Len(pat.lit) - 1) = pat.lit
    /\ InClass(text[i + Len(pat.lit)], pat.cls)
Matches(pat, text) == \E i \in 1..Len(text) : MatchesAt(pat, text, i)

\* g is capture group 1 of the leftmost match of pat in text.
IsGroup1(pat, text, g) ==
    \E i \in 1..Len(text) : \E j \in i..Len(text) :
        /\ MatchesAt(pat, text, i)
        /\ \A h \in 1..(i - 1) : ~MatchesAt(pat, text, h)
        /\ g = SubSeq(text, i + Len(pat.lit), j)
        /\ g # <<>>
        /\ \A k \in 1..Len(g) : InClass(g[k], pat.cls)
        /\ j < Len(text) => ~InClass(text[j + 1], pat.cls)

\* The binary ran and wrote valid text, and the pattern compiles.
Ran ==
    /\ Asked("installed_manifest_version")
    /\ probe.result.executed /\ probe.run.spawn /\ dest[BinaryPath].exe
    /\ Asker.pattern.valid
    /\ from_utf8_ok(probe.run.stdout)

\* C10: when the binary runs and writes valid text, installed_manifest_version
\* returns Ok(None) if the pattern does not match stdout, and the version
\* parsed from capture group 1 if it matches (and the capture is a version).
C10_NoMatchIsNone ==
    Ran =>
        LET pat == Asker.pattern
            out == probe.run.stdout
        IN  /\ ~Matches(pat, out) => probe.result.ok /\ ~probe.result.some
            /\ \A n \in 1..Len(out) : \A g \in [1..n -> Bytes] :
                  IsGroup1(pat, out, g) /\ Versioning_new(g) # 0 =>
                      /\ probe.result.ok /\ probe.result.some
                      /\ probe.result.version = Versioning_new(g)
            /\ probe.result.ok /\ probe.result.some => Matches(pat, out)

\* stdout was "v2" and the probe returned version 2.
C10_Witness ==
    /\ Ran
    /\ probe.run.stdout = <<"v", "2">>
    /\ probe.result.ok /\ probe.result.some /\ probe.result.version = 2

\* stdout did not match the pattern and the probe returned None.
C10_WitnessNoMatch ==
    /\ Ran
    /\ probe.run.stdout # <<>> /\ ~Matches(Asker.pattern, probe.run.stdout)
    /\ probe.result.ok /\ ~probe.result.some


\* stdout holds a byte sequence that is not UTF-8.
NotUtf8(bytes) == \E i \in 1..Len(bytes) : bytes[i] = BadByte

\* The probe was asked and the process could be run.
Executed ==
    /\ Asked("installed_manifest_version")
    /\ probe.result.executed /\ probe.run.spawn /\ dest[BinaryPath].exe

\* C11: when the pattern matches and the text of capture group 1 is no
\* version, installed_manifest_version returns an error, not None.
C11_UnparsableCaptureIsError ==
    Executed /\ Asker.pattern.valid /\ ~NotUtf8(probe.run.stdout) =>
        \A n \in 1..Len(probe.run.stdout) : \A g \in [1..n -> Bytes] :
            IsGroup1(Asker.pattern, probe.run.stdout, g) /\ Versioning_new(g) = 0 =>
                /\ ~probe.result.ok
                /\ probe.result.error = "VersionParseError"

\* stdout was "vv", the pattern v(.+) captured "v", and the probe failed.
C11_Witness ==
    /\ Executed
    /\ Asker.pattern = PatAny
    /\ probe.run.stdout = <<"v", "v">>
    /\ probe.result.error = "VersionParseError"

\* C12: the exit code of the probed binary does not decide the result: when
\* the process could be run and stdout matches, installed_manifest_version
\* returns the parsed version whatever the exit code; the process step fails
\* only when the process cannot be run or stdout is not UTF-8.
C12_ExitCodeNotFatal ==
    Asked("installed_manifest_version") /\ probe.result.executed =>
        LET out == probe.run.stdout
            couldRun == probe.run.spawn /\ dest[BinaryPath].exe
        IN  /\ probe.result.error = "ProcessError" <=> ~couldRun
            /\ probe.result.error = "NonUtf8Output" => NotUtf8(out)
            /\ couldRun /\ Asker.pattern.valid /\ ~NotUtf8(out) =>
                  \A n \in 1..Len(out) : \A g \in [1..n -> Bytes] :
                      IsGroup1(Asker.pattern, out, g) /\ Versioning_new(g) # 0 =>
                          probe.result = OkSome(Versioning_new(g), TRUE)

\* The binary exited with code 1, wrote "v1", and the probe returned 1.
C12_Witness ==
    /\ Executed
    /\ probe.run.exit = 1
    /\ probe.run.stdout = <<"v", "1">>
    /\ probe.result.ok /\ probe.result.some /\ probe.result.version = 1

\* C13: when the binary exists and runs and its stdout is not valid UTF-8,
\* installed_manifest_version returns an error, not None (the invalid
\* encoding, when the pattern compiles).
C13_NonUtf8IsError ==
    Executed /\ NotUtf8(probe.run.stdout) =>
        /\ ~probe.result.ok
        /\ Asker.pattern.valid => probe.result.error = "NonUtf8Output"

\* stdout was "v" and a byte that is not UTF-8; the probe failed on it.
C13_Witness ==
    /\ Executed
    /\ probe.run.stdout = <<"v", BadByte>>
    /\ probe.result.error = "NonUtf8Output"


C19_QueriesChangeNothing ==
    [][probe' # probe /\ probe'.call # "none" => dest' = dest /\ scratch' = scratch]_vars

\* The probe ran the binary and failed, on a tree with files and a download
\* directory that holds a download.
C19_Witness ==
    /\ Asked("installed_manifest_version")
    /\ probe.result.executed /\ ~probe.result.ok
    /\ \E x \in Paths : dest[x] # Absent
    /\ scratch[Asker.name]["download"] # NONE


\* The files of the download directory an operation reads and writes.
Reads(op) ==
    IF op.op = "Extract" THEN {"download"}
    ELSE IF IsPlace(op) THEN {op.source} ELSE {}
Writes(op) == IF op.op \in {"Download", "Extract"} THEN {op.target} ELSE {}

\* C15: in the sequence install_manifest applies, the Download precedes every
\* Extract and Place, and at every step the file of the download directory the
\* next operation reads exists and was written by an operation this call
\* applied before.
C15_ReadsAfterWrites ==
    \A p \in active :
        pc[p] = "install" =>
            /\ \A i \in 1..Len(ops[p]) :
                  ops[p][i].op # "Download" => \E j \in 1..(i - 1) : ops[p][j].op = "Download"
            /\ idx[p] <= Len(ops[p]) =>
                  \A f \in Reads(ops[p][idx[p]]) :
                      /\ scratch[manifest[p].name][f] # NONE
                      /\ \E j \in 1..Len(trace[p]) :
                            /\ trace[p][j].outcome = "Ok"
                            /\ trace[p][j].i < idx[p]
                            /\ f \in Writes(ops[p][trace[p][j].i])

\* The next operation places a file that this call extracted from its download.
C15_Witness ==
    /\ pc["p1"] = "install"
    /\ idx["p1"] <= Len(ops["p1"])
    /\ IsPlace(ops["p1"][idx["p1"]])
    /\ ops["p1"][idx["p1"]].source # "download"
    /\ start["p1"].scratch[manifest["p1"].name][ops["p1"][idx["p1"]].source] = NONE

\* C17: within one install_manifest or remove_manifest call every planned
\* operation is applied at most once, and an operation that fails (a failed
\* download, a checksum mismatch) ends the call with its error.
C17_NoRetry ==
    \A p \in active :
        LET n == Len(trace[p])
        IN  /\ n <= Len(ops[p])
            /\ \A j, k \in 1..n : j < k => trace[p][j].i < trace[p][k].i
            /\ \A j \in 1..n :
                  trace[p][j].outcome # "Ok" =>
                      /\ j = n
                      /\ pc[p] = "idle"
                      /\ result[p] = trace[p][j].outcome

\* A download failed on the network and the install returned that error
\* after one attempt.
C17_Witness ==
    /\ Finished("p1", "install")
    /\ result["p1"] = "NetworkError"
    /\ Len(trace["p1"]) = 1

\* The destination a Delete removes.
DeletePath(p, i) == Join(DirsPath(dirs, ops[p][i].kind), ops[p][i].name)

\* C18: when the k-th delete of remove_manifest fails with an error of the
\* filesystem, remove_manifest returns that error at once, destinations
\* 1..k-1 are deleted and the k-th and later ones are as they were.
C18_RemoveFailFast ==
    \A p \in active :
        pc[p] = "remove" \/ Finished(p, "remove") =>
            \A k \in 1..Len(trace[p]) :
                trace[p][k].outcome # "Ok" =>
                    /\ k = Len(trace[p]) /\ trace[p][k].i = k
                    /\ Finished(p, "remove")
                    /\ result[p] = trace[p][k].outcome
                    /\ trace[p][k].fault
                    /\ \A i \in 1..(k - 1) : dest[DeletePath(p, i)] = Absent
                    /\ \A i \in k..Len(ops[p]) :
                          /\ dest[DeletePath(p, i)] = start[p].dest[DeletePath(p, i)]
                          /\ i = k => dest[DeletePath(p, i)] # Absent

\* The second delete failed: the first file is gone, the second is there.
C18_Witness ==
    /\ Finished("p1", "remove")
    /\ result["p1"] = "IoError"
    /\ Len(trace["p1"]) = 2
    /\ start["p1"].dest[DeletePath("p1", 1)] # Absent
    /\ dest[DeletePath("p1", 1)] = Absent
    /\ dest[DeletePath("p1", 2)] # Absent


\* The download directories as a call sees them that can read only its own.
OwnOnly(scr, n) ==
    [ m \in DOMAIN scr |-> IF m = n THEN scr[m] ELSE [f \in ScratchNames |-> NONE] ]

\* C16: when two callers install manifests of different names in any
\* interleaving, an operation of one install writes no file of the other
\* manifest's download directory, and what it does is what it would do if the
\* other download directory were empty: it reads no file of it either.
C16_ScratchIsolation ==
    [][ \A p \in active :
          (pc[p] = "install" /\ trace'[p] # trace[p]) =>
              LET n == manifest[p].name
                  op == ops[p][idx[p]]
                  e == trace'[p][Len(trace'[p])]
              IN  /\ \A m \in DOMAIN scratch \ {n} : scratch'[m] = scratch[m]
                  /\ \E netOk, ioOk \in BOOLEAN :
                        LET r == apply_operation(op, for_manifest(dirs, manifest[p]),
                                                 OwnOnly(scratch, n), dest, remote[n],
                                                 netOk, ioOk)
                        IN  /\ r.outcome = e.outcome
                            /\ r.scratch[n] = scratch'[n]
                            /\ r.dest = dest' ]_vars

\* Both installs are under way, each has downloaded its own, different
\* artifact and the second one has extracted from it.
C16_Witness ==
    /\ pc["p1"] = "install" /\ pc["p2"] = "install"
    /\ manifest["p1"].name # manifest["p2"].name
    /\ remote["alpha"] # remote["beta"]
    /\ scratch["alpha"]["download"] = <<remote["alpha"], 0>>
    /\ scratch["beta"]["download"] = <<remote["beta"], 0>>
    /\ \E f \in FileNames : scratch["beta"][f] # NONE /\ scratch["beta"][f][1] = remote["beta"]

====
